---- MODULE Spec2Model ----
(***************************************************************************)
(* Model of crates/cuid1/src/cuid1/fingerprint.rs: the thread-local        *)
(* FINGERPRINT, its accessor fingerprint(), and the digest encoder hash(). *)
(*                                                                         *)
(* Byte strings are sequences of 0..255.  A BigUint is the sequence of its *)
(* base-256 digits, most significant first, without leading zeros (zero is *)
(* the empty sequence).  A String is a sequence of one-character strings.  *)
(***************************************************************************)
EXTENDS Integers, Sequences, FiniteSets, TLC

\* ------------------------------------------------------------------------
\* Program constants
\* ------------------------------------------------------------------------

\* const BIG_LENGTH: u8 = 4
BIG_LENGTH == 4

\* crate::BASE, the radix of the output alphabet
BASE == 36

\* Sha3_512 output size in bytes
DigestBytes == 64

\* u128::to_be_bytes yields 16 bytes
U128Bytes == 16

\* faulty variant: a third draw
RandDrawsThree == 2 + 1

\* the seed holds two thread_rng() draws
RandDraws == 2

\* ------------------------------------------------------------------------
\* Bounds of the model
\* ------------------------------------------------------------------------

\* threads the host process may run (1..NThreads, thread 1 is the main one)
NThreads == 2

\* thread_rng().gen::<u128>() draws from 0..MaxRand
MaxRand == 1

\* fingerprint() calls a thread makes
MaxCalls == 2

\* ------------------------------------------------------------------------
\* Byte-level helpers
\* ------------------------------------------------------------------------

Min(a, b) == IF a < b THEN a ELSE b

Zeros(n) == [i \in 1..n |-> 0]

\* the digits of to_str_radix, in value order
Alphabet ==
    << "0", "1", "2", "3", "4", "5", "6", "7", "8", "9",
       "a", "b", "c", "d", "e", "f", "g", "h", "i", "j",
       "k", "l", "m", "n", "o", "p", "q", "r", "s", "t",
       "u", "v", "w", "x", "y", "z" >>

AlphabetSet == { Alphabet[i] : i \in 1..BASE }

\* uN::to_be_bytes: the value n as `width` big-endian bytes
RECURSIVE ToBeBytes(_, _)
ToBeBytes(n, width) ==
    IF width = 0 THEN << >>
    ELSE Append(ToBeBytes(n \div 256, width - 1), n % 256)

\* ------------------------------------------------------------------------
\* num::bigint::BigUint
\* ------------------------------------------------------------------------

\* normalisation: a BigUint carries no leading zero digits
Normalize(ds) ==
    IF \A i \in 1..Len(ds) : ds[i] = 0 THEN << >>
    ELSE LET k == CHOOSE i \in 1..Len(ds) :
                      ds[i] # 0 /\ \A j \in 1..(i - 1) : ds[j] = 0
         IN  SubSeq(ds, k, Len(ds))

\* BigUint::from_bytes_be
FromBytesBE(bytes) == Normalize(bytes)

\* long division of the digits ds[lo..hi] by the small number d with
\* incoming remainder rem: the quotient digits and the outgoing remainder.
\* The range is halved so that the evaluation depth stays logarithmic; the
\* digits are still consumed most significant first.
RECURSIVE LongDiv(_, _, _, _, _)
LongDiv(ds, lo, hi, d, rem) ==
    IF lo = hi
    THEN LET cur == rem * 256 + ds[lo]
         IN  [quot |-> << cur \div d >>, rem |-> cur % d]
    ELSE LET mid == (lo + hi) \div 2
             l   == LongDiv(ds, lo, mid, d, rem)
             r   == LongDiv(ds, mid + 1, hi, d, l.rem)
         IN  [quot |-> l.quot \o r.quot, rem |-> r.rem]

\* n > 0 divided by the small number d: quotient and remainder
DivRem(n, d) ==
    LET qr == LongDiv(n, 1, Len(n), d, 0)
    IN  [quot |-> Normalize(qr.quot), rem |-> qr.rem]

\* one step of the conversion: peel the least significant radix digit off
\* st.n (st.n > 0) and put it in front of the digits found so far
RadixStep(st, radix) ==
    LET qr == DivRem(st.n, radix)
    IN  [n |-> qr.quot, acc |-> << qr.rem >> \o st.acc]

\* at most k steps of the conversion, stopping when nothing is left (k is
\* halved for the same reason as above)
RECURSIVE RadixSteps(_, _, _)
RadixSteps(st, k, radix) ==
    IF st.n = << >> \/ k = 0 THEN st
    ELSE IF k = 1 THEN RadixStep(st, radix)
    ELSE LET half == RadixSteps(st, k \div 2, radix)
         IN  IF half.n = << >> THEN half
             ELSE RadixSteps(half, k - (k \div 2), radix)

\* the radix digits of n, most significant first, as digit values; a byte
\* holds fewer than two digits of a radix above 16, so 2 * Len(n) steps
\* always reach zero
RadixDigits(n, radix) ==
    RadixSteps([n |-> n, acc |-> << >>], 2 * Len(n), radix).acc

\* BigUint::to_str_radix: zero prints as "0", anything else without
\* leading zeros, most significant digit first
ToStrRadix(n, radix) ==
    IF n = << >> THEN << Alphabet[1] >>
    ELSE LET ds == RadixDigits(n, radix)
         IN  [i \in 1..Len(ds) |-> Alphabet[ds[i] + 1]]

\* String::truncate: no effect when new_len >= len
Truncate(s, newLen) ==
    IF newLen < Len(s) THEN SubSeq(s, 1, newLen) ELSE s

\* ------------------------------------------------------------------------
\* State
\* ------------------------------------------------------------------------

VARIABLES
    sha3key,    \* which function of the modelled family Sha3_512 is
    pid,        \* std::process::id()
    thread,     \* thread |-> "unborn", "running" or "exited"
    pc,         \* thread |-> its position in fingerprint()
    seed,       \* thread |-> the blocks of the FINGERPRINT initialiser so far
    slot,       \* thread |-> its FINGERPRINT thread-local
    result,     \* thread |-> what its last fingerprint() call returned
    returned,   \* thread |-> every string its fingerprint() calls returned
    calls,      \* thread |-> fingerprint() calls it has made
    stats,      \* thread |-> entropy reads and hashes of its initialiser
    hlast,      \* the last hash() call made from outside: arguments and result
    hrel        \* how that call relates to the hash() call before it

vars == << sha3key, pid, thread, pc, seed, slot, result, returned, calls,
           stats, hlast, hrel >>

Threads == 1..NThreads

\* a thread-local that its lazy initialiser has not run for yet
Uninit == [state |-> "uninit"]

\* a thread-local dropped at thread exit
Destroyed == [state |-> "destroyed"]

Initialised(v) == [state |-> "init", value |-> v]

NoResult == [ok |-> FALSE, value |-> << >>, none |-> TRUE]

NoCall == [valid |-> FALSE]

NoRel == [sameArgs |-> FALSE, sameBytes |-> FALSE, sameOut |-> FALSE,
          otherThread |-> FALSE]

ZeroStats == [draws |-> 0, pidReads |-> 0, tidHashes |-> 0, hashes |-> 0]

\* values of thread_rng().gen::<u128>()
RandVals == 0..MaxRand

\* values of std::process::id()
Pids == {1, 300}

\* ------------------------------------------------------------------------
\* Sha3_512
\* ------------------------------------------------------------------------

\* The digests the model lets Sha3_512 produce: zero, the largest value of
\* three radix-36 digits, the smallest of four, 2^511 (99 digits) and
\* 2^512 - 1 (100 digits).
DigestList ==
    << Zeros(DigestBytes),
       Zeros(DigestBytes - 2) \o << 182, 63 >>,
       Zeros(DigestBytes - 2) \o << 182, 64 >>,
       << 128 >> \o Zeros(DigestBytes - 1),
       [i \in 1..DigestBytes |-> 255] >>

NDigests == Len(DigestList)

\* the most radix-BASE digits a digest can have
MaxDigits == Len(ToStrRadix(FromBytesBE(DigestList[NDigests]), BASE))

\* sum of f over lo..hi
RECURSIVE SumRange(_, _, _)
SumRange(f, lo, hi) ==
    IF lo > hi THEN 0
    ELSE IF lo = hi THEN f[lo]
    ELSE LET mid == (lo + hi) \div 2
         IN  SumRange(f, lo, mid) + SumRange(f, mid + 1, hi)

\* a position-weighted checksum of the absorbed bytes
MsgIndex(msg) ==
    SumRange([i \in 1..Len(msg) |-> ((i % 7) + 1) * (msg[i] + 1)], 1, Len(msg))

\* faulty variant: one hasher kept across calls and never reset
HasherReused == IF hlast.valid THEN hlast.absorbed ELSE << >>

\* Sha3_512::new(): nothing absorbed yet.  The hasher is modelled by the
\* bytes it has absorbed.
HasherNew == << >>

\* faulty variant: every block absorbed behind its length
HasherUpdateFramed(hasher, block) == hasher \o << Len(block) >> \o block

\* hasher.update(block)
HasherUpdate(hasher, block) == hasher \o block

\* for block in input { hasher.update(block.as_ref()) }
RECURSIVE UpdateAll(_, _)
UpdateAll(hasher, input) ==
    IF input = << >> THEN hasher
    ELSE UpdateAll(HasherUpdate(hasher, Head(input)), Tail(input))

\* hasher.finalize(): a fixed function of the absorbed bytes.  The family
\* indexed by sha3key gives every message every digest of DigestList.
Sha3Finalize(hasher) ==
    DigestList[((MsgIndex(hasher) + sha3key) % NDigests) + 1]

\* ------------------------------------------------------------------------
\* hash
\* ------------------------------------------------------------------------

\* The radix-BASE text of every digest of DigestList, converted once.
DigestText ==
    [i \in 1..NDigests |-> ToStrRadix(FromBytesBE(DigestList[i]), BASE)]

\* bigint::BigUint::from_bytes_be(&hash).to_str_radix(BASE.into()); the
\* text of a digest of DigestList is taken from DigestText, which holds
\* exactly what the conversion yields for it
DigestToStrRadix(digest) ==
    IF \E i \in 1..NDigests : DigestList[i] = digest
    THEN DigestText[CHOOSE i \in 1..NDigests : DigestList[i] = digest]
    ELSE ToStrRadix(FromBytesBE(digest), BASE)

\* faulty variant: the reference implementation's .slice(1), which drops
\* the first character
hashSliced(input, length) ==
    LET digest == Sha3Finalize(UpdateAll(HasherNew, input))
        res    == DigestToStrRadix(digest)
    IN  Truncate(Tail(res), length)

\* fn hash(input, length) -> String
hash(input, length) ==
    LET digest == Sha3Finalize(UpdateAll(HasherNew, input))
        res    == DigestToStrRadix(digest)
    IN  Truncate(res, length)

\* ------------------------------------------------------------------------
\* FINGERPRINT and fingerprint()
\* ------------------------------------------------------------------------

\* DefaultHasher over the ThreadId: some fixed value per thread
get_thread_id(t) == (t * 40503) % 65536

\* faulty variant: the initialiser runs on every access
NeedsInitAlways(t) == TRUE

\* FINGERPRINT.with runs the initialiser only for a slot not yet initialised
NeedsInit(t) == slot[t] = Uninit

\* faulty variant: one static shared by all threads
SlotStoreShared(t, v) == [u \in Threads |-> Initialised(v)]

\* the initialiser's value goes into the calling thread's slot
SlotStore(t, v) == [slot EXCEPT ![t] = Initialised(v)]

\* faulty variant: an error result for a string of the wrong length
FingerprintChecked(fp) ==
    [ok |-> Len(fp) = BIG_LENGTH, value |-> fp, none |-> FALSE]

\* Ok(fingerprint)
FingerprintOk(fp) == [ok |-> TRUE, value |-> fp, none |-> FALSE]

Init ==
    /\ sha3key \in 0..(NDigests - 1)
    /\ pid \in Pids
    /\ thread = [t \in Threads |-> IF t = 1 THEN "running" ELSE "unborn"]
    /\ pc = [t \in Threads |-> "idle"]
    /\ seed = [t \in Threads |-> << >>]
    /\ slot = [t \in Threads |-> Uninit]
    /\ result = [t \in Threads |-> NoResult]
    /\ returned = [t \in Threads |-> {}]
    /\ calls = [t \in Threads |-> 0]
    /\ stats = [t \in Threads |-> ZeroStats]
    /\ hlast = NoCall
    /\ hrel = NoRel

\* the host process starts thread t
Spawn(t) ==
    /\ thread[t] = "unborn"
    /\ thread' = [thread EXCEPT ![t] = "running"]
    /\ UNCHANGED << sha3key, pid, pc, seed, slot, result, returned, calls,
                    stats, hlast, hrel >>

\* thread t enters fingerprint() -> get_fingerprint() -> FINGERPRINT.with
Call(t) ==
    /\ thread[t] = "running"
    /\ pc[t] = "idle"
    /\ calls[t] < MaxCalls
    /\ calls' = [calls EXCEPT ![t] = @ + 1]
    /\ pc' = [pc EXCEPT ![t] = IF NeedsInit(t) THEN "init" ELSE "clone"]
    /\ seed' = [seed EXCEPT ![t] = << >>]
    /\ UNCHANGED << sha3key, pid, thread, slot, result, returned, stats,
                    hlast, hrel >>

\* thread_rng().gen::<u128>().to_be_bytes(), the first blocks of the seed
InitRand(t) ==
    /\ pc[t] = "init"
    /\ Len(seed[t]) < RandDraws
    /\ \E r \in RandVals :
           seed' = [seed EXCEPT ![t] = Append(@, ToBeBytes(r, U128Bytes))]
    /\ stats' = [stats EXCEPT ![t].draws = @ + 1]
    /\ UNCHANGED << sha3key, pid, thread, pc, slot, result, returned, calls,
                    hlast, hrel >>

\* u128::from(std::process::id()).to_be_bytes()
InitPid(t) ==
    /\ pc[t] = "init"
    /\ Len(seed[t]) = RandDraws
    /\ seed' = [seed EXCEPT ![t] = Append(@, ToBeBytes(pid, U128Bytes))]
    /\ stats' = [stats EXCEPT ![t].pidReads = @ + 1]
    /\ UNCHANGED << sha3key, pid, thread, pc, slot, result, returned, calls,
                    hlast, hrel >>

\* u128::from(get_thread_id()).to_be_bytes()
InitTid(t) ==
    /\ pc[t] = "init"
    /\ Len(seed[t]) = RandDraws + 1
    /\ seed' = [seed EXCEPT
                   ![t] = Append(@, ToBeBytes(get_thread_id(t), U128Bytes))]
    /\ stats' = [stats EXCEPT ![t].tidHashes = @ + 1]
    /\ UNCHANGED << sha3key, pid, thread, pc, slot, result, returned, calls,
                    hlast, hrel >>

\* hash([..], BIG_LENGTH.into()) and the store into the thread-local
InitHash(t) ==
    /\ pc[t] = "init"
    /\ Len(seed[t]) = RandDraws + 2
    /\ slot' = SlotStore(t, hash(seed[t], BIG_LENGTH))
    /\ stats' = [stats EXCEPT ![t].hashes = @ + 1]
    /\ seed' = [seed EXCEPT ![t] = << >>]
    /\ pc' = [pc EXCEPT ![t] = "clone"]
    /\ UNCHANGED << sha3key, pid, thread, result, returned, calls, hlast,
                    hrel >>

\* |x| x.clone(), and fingerprint() returning Ok(fingerprint)
Clone(t) ==
    /\ pc[t] = "clone"
    /\ result' = [result EXCEPT ![t] = FingerprintOk(slot[t].value)]
    /\ returned' = [returned EXCEPT ![t] = @ \cup {slot[t].value}]
    /\ pc' = [pc EXCEPT ![t] = "idle"]
    /\ UNCHANGED << sha3key, pid, thread, seed, slot, calls, stats, hlast,
                    hrel >>

\* thread t ends; its thread-locals are dropped
Exit(t) ==
    /\ thread[t] = "running"
    /\ pc[t] = "idle"
    /\ thread' = [thread EXCEPT ![t] = "exited"]
    /\ slot' = [slot EXCEPT ![t] = Destroyed]
    /\ UNCHANGED << sha3key, pid, pc, seed, result, returned, calls, stats,
                    hlast, hrel >>

Next ==
    \E t \in Threads :
        \/ Spawn(t)
        \/ Call(t)
        \/ InitRand(t)
        \/ InitPid(t)
        \/ InitTid(t)
        \/ InitHash(t)
        \/ Clone(t)
        \/ Exit(t)

Spec == Init /\ [][Next]_vars

\* ------------------------------------------------------------------------
\* hash() called directly
\* ------------------------------------------------------------------------

\* the block sequences handed to hash()
BlockSeqs ==
    { << >>,
      << << >> >>,
      << << 0 >> >>,
      << << 1 >> >>,
      << << 0, 1 >> >>,
      << << 0 >>, << 1 >> >>,
      << << 0 >>, << >>, << 1 >> >> }

\* the lengths asked of hash()
Lengths == {0, BIG_LENGTH, MaxDigits, MaxDigits + 1}

RECURSIVE Concat(_)
Concat(blocks) ==
    IF blocks = << >> THEN << >> ELSE Head(blocks) \o Concat(Tail(blocks))

\* thread t calls hash(blocks, length); hash returns a String, it has no
\* error result
HashCall(t, blocks, length) ==
    /\ thread[t] = "running"
    /\ LET absorbed == UpdateAll(HasherNew, blocks)
           out      == hash(blocks, length)
       IN  /\ hlast' = [valid |-> TRUE, caller |-> t,
                        blocks |-> blocks, length |-> length,
                        absorbed |-> absorbed,
                        digest |-> Sha3Finalize(absorbed), out |-> out,
                        err |-> "none"]
           /\ hrel' =
                  IF hlast.valid /\ hlast.length = length
                  THEN [sameArgs |-> hlast.blocks = blocks,
                        sameBytes |-> Concat(hlast.blocks) = Concat(blocks),
                        sameOut |-> hlast.out = out,
                        otherThread |-> hlast.caller # t]
                  ELSE NoRel
    /\ UNCHANGED << sha3key, pid, thread, pc, seed, slot, result, returned,
                    calls, stats >>

\* hash() is called by threads that are running; no thread has touched its
\* FINGERPRINT
InitHashSpec ==
    /\ sha3key \in 0..(NDigests - 1)
    /\ pid \in Pids
    /\ thread = [t \in Threads |-> "running"]
    /\ pc = [t \in Threads |-> "idle"]
    /\ seed = [t \in Threads |-> << >>]
    /\ slot = [t \in Threads |-> Uninit]
    /\ result = [t \in Threads |-> NoResult]
    /\ returned = [t \in Threads |-> {}]
    /\ calls = [t \in Threads |-> 0]
    /\ stats = [t \in Threads |-> ZeroStats]
    /\ hlast = NoCall
    /\ hrel = NoRel

NextHash ==
    \E t \in Threads, blocks \in BlockSeqs, length \in Lengths :
        HashCall(t, blocks, length)

SpecHash == InitHashSpec /\ [][NextHash]_vars

\* ------------------------------------------------------------------------
\* Reading a radix-BASE text back as a number
\* ------------------------------------------------------------------------

Reverse(ds) == [i \in 1..Len(ds) |-> ds[Len(ds) + 1 - i]]

\* ds[lo..hi] * m + carry for base-256 digits kept least significant first
RECURSIVE MulAdd(_, _, _, _, _)
MulAdd(ds, lo, hi, m, carry) ==
    IF lo = hi
    THEN LET cur == ds[lo] * m + carry
         IN  [digits |-> << cur % 256 >>, carry |-> cur \div 256]
    ELSE LET mid == (lo + hi) \div 2
             l   == MulAdd(ds, lo, mid, m, carry)
             r   == MulAdd(ds, mid + 1, hi, m, l.carry)
         IN  [digits |-> l.digits \o r.digits, carry |-> r.carry]

\* n * m + a for small m and a, n and the result least significant first
MulAddBig(n, m, a) ==
    IF n = << >> THEN << a >>
    ELSE LET x == MulAdd(n, 1, Len(n), m, a)
         IN  IF x.carry = 0 THEN x.digits ELSE Append(x.digits, x.carry)

DigitValue(c) == CHOOSE d \in 0..(BASE - 1) : Alphabet[d + 1] = c

\* the value of text[lo..hi] read after the digits that gave acc
RECURSIVE Horner(_, _, _, _)
Horner(text, lo, hi, acc) ==
    IF lo > hi THEN acc
    ELSE IF lo = hi THEN MulAddBig(acc, BASE, DigitValue(text[lo]))
    ELSE LET mid  == (lo + hi) \div 2
             left == Horner(text, lo, mid, acc)
         IN  IF left = << >> THEN Horner(text, mid + 1, hi, << >>)
             ELSE Horner(text, mid + 1, hi, left)

\* the BigUint a most-significant-digit-first radix-BASE text denotes
FromStrRadix(text) == Normalize(Reverse(Horner(text, 1, Len(text), << >>)))

\* text is the radix-BASE representation of the big-endian number in bytes
IsRadixTextOf(text, bytes) ==
    /\ Len(text) >= 1
    /\ \A i \in 1..Len(text) : text[i] \in AlphabetSet
    /\ Len(text) > 1 => text[1] # Alphabet[1]
    /\ FromStrRadix(text) = FromBytesBE(bytes)

\* every text of DigestText denotes its digest
DigestTextDenotesDigest ==
    \A i \in 1..NDigests : IsRadixTextOf(DigestText[i], DigestList[i])

\* ------------------------------------------------------------------------
\* Properties
\* ------------------------------------------------------------------------

FullStats == [draws |-> 2, pidReads |-> 1, tidHashes |-> 1, hashes |-> 1]

HasReturned(t) == ~result[t].none

\* C1: every string fingerprint() has returned, on any thread, has exactly
\* BIG_LENGTH characters, whatever the digest of the seed was.
C1_FingerprintLength ==
    \A t \in Threads : HasReturned(t) => Len(result[t].value) = BIG_LENGTH

\* C2: all the fingerprint() calls of one thread returned the same string,
\* and a slot that holds a value keeps that value until its thread ends.
C2_SameThreadSameValue ==
    /\ [](\A t \in Threads : Cardinality(returned[t]) <= 1)
    /\ [][\A t \in Threads :
            slot[t].state = "init" =>
                slot'[t] = slot[t] \/ slot'[t] = Destroyed]_vars

\* a thread has returned from its second call while another thread holds a
\* different fingerprint
C2_Witness ==
    \E t, u \in Threads :
        /\ t # u
        /\ calls[t] >= 2 /\ pc[t] = "idle"
        /\ slot[t].state = "init" /\ slot[u].state = "init"
        /\ slot[t] # slot[u]
        /\ returned[t] = {slot[t].value}

\* C3: for a length no greater than MaxDigits, hash returns exactly that
\* many characters, each a symbol of the radix-BASE alphabet.
C3_HashLength ==
    (hlast.valid /\ hlast.length <= MaxDigits) =>
        /\ Len(hlast.out) = hlast.length
        /\ \A i \in 1..Len(hlast.out) : hlast.out[i] \in AlphabetSet

\* C4: asked for more characters than the radix-BASE text of the digest
\* has, hash fails with EncodingLengthError and returns no shorter string.
C4_ErrorOnShortDigest ==
    (hlast.valid /\ hlast.length > Len(DigestToStrRadix(hlast.digest))) =>
        hlast.err = "EncodingLengthError"

C6_AlwaysOk ==
    \A t \in Threads :
        HasReturned(t) =>
            /\ result[t].ok
            /\ slot[t].state = "init" => result[t].value = slot[t].value

\* a first call has returned Ok although the cached string is short
C6_Witness ==
    \E t \in Threads :
        /\ calls[t] = 1 /\ pc[t] = "idle" /\ result[t].ok
        /\ slot[t].state = "init"
        /\ Len(result[t].value) < BIG_LENGTH

Acted(t) ==
    \/ pc'[t] # pc[t]
    \/ thread'[t] # thread[t]
    \/ seed'[t] # seed[t]
    \/ stats'[t] # stats[t]
    \/ calls'[t] # calls[t]

\* C8: a step of one thread, its exit included, leaves the slot of every
\* other thread as it was.
C8_SlotsPrivate ==
    [][\A t, u \in Threads : (t # u /\ Acted(t)) => slot'[u] = slot[u]]_vars

\* a thread that made a call has ended and another still holds its value
C8_Witness ==
    \E t, u \in Threads :
        /\ t # u
        /\ thread[t] = "exited" /\ calls[t] >= 1 /\ slot[t] = Destroyed
        /\ thread[u] = "running" /\ slot[u].state = "init"

\* C9: what hash returns is the leading part, `length` characters at most,
\* of the text that denotes the digest read as a big-endian number, most
\* significant digit first; the first digit of that text is kept.
C9_LeadingDigits ==
    /\ DigestTextDenotesDigest
    /\ hlast.valid =>
           LET text == DigestText[CHOOSE i \in 1..NDigests :
                                      DigestList[i] = hlast.digest]
           IN  /\ hlast.out = SubSeq(text, 1, Min(hlast.length, Len(text)))
               /\ hlast.length >= 1 => hlast.out[1] = text[1]

\* a digest of MaxDigits digits cut down to BIG_LENGTH characters
C9_Witness ==
    /\ hlast.valid
    /\ hlast.length = BIG_LENGTH
    /\ Len(DigestToStrRadix(hlast.digest)) = MaxDigits
    /\ Len(hlast.out) = BIG_LENGTH

====
